---- MODULE Spec2Model ----
(***************************************************************************)
(* Model of find-initials.py: a directory scan for `initial={{ ... }}`     *)
(* property expressions in *.tsx files, followed by a console report.      *)
(*                                                                         *)
(* Text is modelled as a sequence of one-character strings, so that        *)
(* slicing, counting, formatting and printing are done character by        *)
(* character, as the script does them.                                     *)
(***************************************************************************)
EXTENDS Integers, Sequences, FiniteSets

VARIABLES
    dir,        \* state of the components directory on disk
    listing,    \* the file names components_dir.glob('*.tsx') yields, in order
    idx,        \* how many names of the listing the for loop has taken
    tsx_file,   \* loop variable: name of the current file
    content,    \* text read from the current file
    matches,    \* match objects of the current file, in iteration order
    results,    \* accumulated record strings
    stdout,     \* characters written to standard output
    exc,        \* unhandled exception, "none" while the run is healthy
    pc          \* position in the script

vars == <<dir, listing, idx, tsx_file, content, matches, results, stdout, exc, pc>>

----------------------------------------------------------------------------
(* Bounds *)

\* longest file text, counted in fragments
MaxFrags == 3
\* length of the filler fragment (characters other than '}' and newline)
PadLen == 69

----------------------------------------------------------------------------
(* Program constants *)

\* match.group(0)[:80]
SnippetLen == 80

NL == "\n"

\* the literal prefix of the regular expression, initial=\{\{
OpenLit == <<"i", "n", "i", "t", "i", "a", "l", "=", "{", "{">>

\* the literal suffix of the regular expression, \}\}
CloseLit == <<"}", "}">>

\* f"Found {len(results)} remaining initial={{}} patterns:\n" -- the text
\* before the replacement field
HeaderHead == <<"F", "o", "u", "n", "d", " ">>

\* the text after the replacement field; inside an f-string the doubled
\* braces {{ and }} are escapes that each produce ONE brace
HeaderTail ==
    <<" ", "r", "e", "m", "a", "i", "n", "i", "n", "g", " ",
      "i", "n", "i", "t", "i", "a", "l", "=", "{", "}", " ",
      "p", "a", "t", "t", "e", "r", "n", "s", ":", NL>>

\* the message as an f-string would print it: each doubled brace once
NoneMsgF ==
    <<"N", "o", " ", "r", "e", "m", "a", "i", "n", "i", "n", "g", " ",
      "i", "n", "i", "t", "i", "a", "l", "=", "{", "}", " ",
      "p", "a", "t", "t", "e", "r", "n", "s", " ",
      "f", "o", "u", "n", "d", "!">>

\* "No remaining initial={{}} patterns found!" -- a plain string literal,
\* so the braces are printed as written
NoneMsg ==
    <<"N", "o", " ", "r", "e", "m", "a", "i", "n", "i", "n", "g", " ",
      "i", "n", "i", "t", "i", "a", "l", "=", "{", "{", "}", "}", " ",
      "p", "a", "t", "t", "e", "r", "n", "s", " ",
      "f", "o", "u", "n", "d", "!">>

----------------------------------------------------------------------------
(* The environment: file names and file texts *)

FileA == <<"a", ".", "t", "s", "x">>
FileB == <<"b", ".", "t", "s", "x">>
FileNames == {FileA, FileB}
NoFile == <<>>

\* every order in which the directory listing can present its *.tsx files
Listings ==
    {<<>>} \cup {<<f>> : f \in FileNames}
           \cup {<<f, g>> : <<f, g>> \in {p \in FileNames \X FileNames : p[1] # p[2]}}

Pad == [k \in 1..PadLen |-> "x"]

\* a complete one-line property expression, initial={{x}}
Prop == OpenLit \o <<"x">> \o CloseLit

\* a lone closing brace followed by an ordinary character
BraceX == <<"}", "x">>

\* building blocks of file texts
Frag == {OpenLit, CloseLit, BraceX, <<NL>>, Pad, Prop}

RECURSIVE Flatten(_)
Flatten(fs) == IF fs = <<>> THEN <<>> ELSE Head(fs) \o Flatten(Tail(fs))

Texts == {Flatten(fs) : fs \in UNION {[1..k -> Frag] : k \in 0..MaxFrags}}

----------------------------------------------------------------------------
(* Pure functions of the script *)

\* s[a:b] of Python, 0-based, b exclusive, clipped to the length of s
Slice(s, a, b) == SubSeq(s, a + 1, IF b > Len(s) THEN Len(s) ELSE b)

\* s.count(ch) for a one-character ch
Count(s, ch) == Cardinality({k \in 1..Len(s) : s[k] = ch})

\* does the literal lit occur in s at 1-based position i
LitAt(s, i, lit) ==
    /\ i >= 1
    /\ i + Len(lit) - 1 <= Len(s)
    /\ \A k \in 1..Len(lit) : s[i + k - 1] = lit[k]

\* 1-based position of the first '}' at or after position j, 0 when none
FirstRBrace(s, j) ==
    LET ks == {k \in j..Len(s) : s[k] = "}"}
    IN  IF ks = {} THEN 0 ELSE CHOOSE k \in ks : \A m \in ks : k <= m

\* the regular expression initial=\{\{[^}]+\}\} tried at 1-based position i:
\* the 1-based position of the last matched character, 0 when it fails.
\* [^}]+ takes every character up to the next '}' and needs at least one;
\* giving characters back cannot help, the next one must be a '}'.
MatchEnd(s, i) ==
    IF ~LitAt(s, i, OpenLit) THEN 0
    ELSE LET j  == i + Len(OpenLit)
             rb == FirstRBrace(s, j)
         IN  IF rb > j /\ LitAt(s, rb, CloseLit) THEN rb + 1 ELSE 0

\* the leftmost position at or after i where the expression matches, 0 when none
NextStart(s, i) ==
    LET ps == {p \in i..Len(s) : MatchEnd(s, p) > 0}
    IN  IF ps = {} THEN 0 ELSE CHOOSE p \in ps : \A q \in ps : p <= q

\* re.finditer: leftmost matches, scanning resumes where a match ended;
\* start and end are Python offsets (0-based, end exclusive)
RECURSIVE FindFrom(_, _)
FindFrom(s, i) ==
    LET p == NextStart(s, i)
    IN  IF p = 0 THEN <<>>
        ELSE <<[start |-> p - 1, end |-> MatchEnd(s, p)]>> \o FindFrom(s, MatchEnd(s, p) + 1)

FindIter(s) == FindFrom(s, 1)

\* str(n) for n >= 0
Digit(d) == <<"0", "1", "2", "3", "4", "5", "6", "7", "8", "9">>[d + 1]

RECURSIVE Str(_)
Str(n) == IF n < 10 THEN <<Digit(n)>> ELSE Str(n \div 10) \o <<Digit(n % 10)>>

\* the line on which the match ends: content[:match.end()] instead
LineNumAtEnd(s, m) == Count(Slice(s, 0, m.end), NL) + 1

\* content[:match.start()].count('\n') + 1
LineNum(s, m) == Count(Slice(s, 0, m.start), NL) + 1

\* match.group(0)
Group0(s, m) == Slice(s, m.start, m.end)

\* the match reported whole, the slice forgotten
SnippetWhole(s, m) == Group0(s, m)

\* match.group(0)[:80]
Snippet(s, m) == Slice(Group0(s, m), 0, SnippetLen)

\* f"{tsx_file.name}:{line_num}: {snippet}"
Record(name, s, m) == name \o <<":">> \o Str(LineNum(s, m)) \o <<":", " ">> \o Snippet(s, m)

\* the records the inner for loop appends for one file
Records(name, s, ms) == [k \in 1..Len(ms) |-> Record(name, s, ms[k])]

\* print(x): the text and a newline
Emit(out, x) == out \o x \o <<NL>>

RECURSIVE EmitAll(_, _)
EmitAll(out, rs) == IF rs = <<>> THEN out ELSE EmitAll(Emit(out, Head(rs)), Tail(rs))

\* f"Found {len(results)} remaining initial={{}} patterns:\n"
Header(n) == HeaderHead \o Str(n) \o HeaderTail

----------------------------------------------------------------------------
(* The script as a state machine *)

Init ==
    /\ dir \in {"present", "missing", "unreadable"}
    /\ listing = <<>>
    /\ idx = 0
    /\ tsx_file = NoFile
    /\ content = <<>>
    /\ matches = <<>>
    /\ results = <<>>
    /\ stdout = <<>>
    /\ exc = "none"
    /\ pc = "glob"

\* components_dir.glob('*.tsx'): pathlib yields nothing for a directory
\* that does not exist and swallows the PermissionError of listing one
GlobDir ==
    /\ pc = "glob"
    /\ listing' \in (IF dir = "present" THEN Listings ELSE {<<>>})
    /\ pc' = "loop"
    /\ UNCHANGED <<dir, idx, tsx_file, content, matches, results, stdout, exc>>

\* the stat of an inaccessible directory path raises out of glob
GlobFail ==
    /\ pc = "glob"
    /\ dir = "unreadable"
    /\ exc' = "PermissionError"
    /\ pc' = "crashed"
    /\ UNCHANGED <<dir, listing, idx, tsx_file, content, matches, results, stdout>>

\* for tsx_file in ...: with open(tsx_file, 'r') as f: content = f.read()
ReadFile ==
    /\ pc = "loop"
    /\ idx < Len(listing)
    /\ idx' = idx + 1
    /\ tsx_file' = listing[idx + 1]
    /\ content' \in Texts
    /\ pc' = "scan"
    /\ UNCHANGED <<dir, listing, matches, results, stdout, exc>>

\* a failing file skipped (try/except: continue) instead of ending the run
ReadFailSkip ==
    /\ pc = "loop"
    /\ idx < Len(listing)
    /\ idx' = idx + 1
    /\ tsx_file' = listing[idx + 1]
    /\ exc' = "OSError"
    /\ pc' = "loop"
    /\ UNCHANGED <<dir, listing, content, matches, results, stdout>>

\* open() or read() raises (permissions, a directory named *.tsx, bad encoding)
ReadFail ==
    /\ pc = "loop"
    /\ idx < Len(listing)
    /\ idx' = idx + 1
    /\ tsx_file' = listing[idx + 1]
    /\ exc' = "OSError"
    /\ pc' = "crashed"
    /\ UNCHANGED <<dir, listing, content, matches, results, stdout>>

\* records put in front of the list (results.insert(0, ...)) instead of appended
ScanFilePrepend ==
    /\ pc = "scan"
    /\ matches' = FindIter(content)
    /\ results' = Records(tsx_file, content, matches') \o results
    /\ pc' = "loop"
    /\ UNCHANGED <<dir, listing, idx, tsx_file, content, stdout, exc>>

\* matches = re.finditer(...); for match in matches: results.append(...)
ScanFile ==
    /\ pc = "scan"
    /\ matches' = FindIter(content)
    /\ results' = results \o Records(tsx_file, content, matches')
    /\ pc' = "loop"
    /\ UNCHANGED <<dir, listing, idx, tsx_file, content, stdout, exc>>

\* the directory listing is exhausted
LoopEnd ==
    /\ pc = "loop"
    /\ idx = Len(listing)
    /\ pc' = "report"
    /\ UNCHANGED <<dir, listing, idx, tsx_file, content, matches, results, stdout, exc>>

\* if results: print(header); for r in results: print(r)
ReportFound ==
    /\ pc = "report"
    /\ results # <<>>
    /\ stdout' = EmitAll(Emit(stdout, Header(Len(results))), results)
    /\ pc' = "done"
    /\ UNCHANGED <<dir, listing, idx, tsx_file, content, matches, results, exc>>

\* else: print("No remaining initial={{}} patterns found!")
ReportNone ==
    /\ pc = "report"
    /\ results = <<>>
    /\ stdout' = Emit(stdout, NoneMsg)
    /\ pc' = "done"
    /\ UNCHANGED <<dir, listing, idx, tsx_file, content, matches, results, exc>>

Next ==
    \/ GlobDir
    \/ GlobFail
    \/ ReadFile
    \/ ReadFail
    \/ ScanFile
    \/ LoopEnd
    \/ ReportFound
    \/ ReportNone

Spec == Init /\ [][Next]_vars

----------------------------------------------------------------------------
(* Vocabulary of the properties: how a reader takes the report apart *)

Min(a, b) == IF a < b THEN a ELSE b

\* 1-based position of the first ch at or after position i, 0 when none
FirstAt(s, i, ch) ==
    LET ks == {k \in i..Len(s) : s[k] = ch}
    IN  IF ks = {} THEN 0 ELSE CHOOSE k \in ks : \A m \in ks : k <= m

\* the lines of a text: each newline ends one, a last unterminated rest counts
RECURSIVE LinesFrom(_, _)
LinesFrom(s, i) ==
    LET nl == FirstAt(s, i, NL)
    IN  IF nl = 0 THEN (IF i > Len(s) THEN <<>> ELSE <<SubSeq(s, i, Len(s))>>)
        ELSE <<SubSeq(s, i, nl - 1)>> \o LinesFrom(s, nl + 1)

Lines(s) == LinesFrom(s, 1)

IsPrefix(p, s) == Len(p) <= Len(s) /\ \A k \in 1..Len(p) : s[k] = p[k]

IsDigit(c) == c \in {"0", "1", "2", "3", "4", "5", "6", "7", "8", "9"}

DigitVal(c) ==
    CASE c = "0" -> 0 [] c = "1" -> 1 [] c = "2" -> 2 [] c = "3" -> 3 [] c = "4" -> 4
      [] c = "5" -> 5 [] c = "6" -> 6 [] c = "7" -> 7 [] c = "8" -> 8 [] c = "9" -> 9

\* the number a string of decimal digits denotes
RECURSIVE ParseNat(_)
ParseNat(ds) ==
    IF Len(ds) = 1 THEN DigitVal(ds[1])
    ELSE 10 * ParseNat(SubSeq(ds, 1, Len(ds) - 1)) + DigitVal(ds[Len(ds)])

\* a record <name>:<line>: <snippet> taken apart at its first two colons
Colon1(r) == FirstAt(r, 1, ":")
Colon2(r) == FirstAt(r, Colon1(r) + 1, ":")
NameField(r) == SubSeq(r, 1, Colon1(r) - 1)
LineDigits(r) == SubSeq(r, Colon1(r) + 1, Colon2(r) - 1)
SnippetField(r) == SubSeq(r, Colon2(r) + 2, Len(r))

\* <name>:<digits>:<space><anything without a newline>
WellFormedRecord(r) ==
    /\ Colon1(r) > 1
    /\ Colon2(r) > Colon1(r) + 1
    /\ NameField(r) \in FileNames
    /\ \A k \in 1..Len(LineDigits(r)) : IsDigit(LineDigits(r)[k])
    /\ Colon2(r) < Len(r)
    /\ r[Colon2(r) + 1] = " "
    /\ \A k \in 1..Len(r) : r[k] # NL

LineField(r) == ParseNat(LineDigits(r))

\* does a line of the report reference the file called name
References(line, name) == IsPrefix(name \o <<":">>, line)

\* the header the report is described to start with
ExpectedHeader(n) ==
    <<"F", "o", "u", "n", "d", " ">> \o Str(n) \o
    <<" ", "r", "e", "m", "a", "i", "n", "i", "n", "g", " ",
      "i", "n", "i", "t", "i", "a", "l", "=", "{", "{", "}", "}", " ",
      "p", "a", "t", "t", "e", "r", "n", "s", ":">>

\* the message the report is described to consist of when nothing was found
ExpectedNone ==
    <<"N", "o", " ", "r", "e", "m", "a", "i", "n", "i", "n", "g", " ",
      "i", "n", "i", "t", "i", "a", "l", "=", "{", "{", "}", "}", " ",
      "p", "a", "t", "t", "e", "r", "n", "s", " ",
      "f", "o", "u", "n", "d", "!">>

\* 1-based positions where initial={{ starts and some }} follows its body
Occurrences(s) ==
    {i \in 1..Len(s) : /\ LitAt(s, i, OpenLit)
                       /\ \E j \in (i + Len(OpenLit))..Len(s) : LitAt(s, j, CloseLit)}

\* 1-based position of the nearest }} at or after position j
NearestClose(s, j) == CHOOSE c \in j..Len(s) :
    /\ LitAt(s, c, CloseLit)
    /\ \A d \in j..(c - 1) : ~LitAt(s, d, CloseLit)

\* newline characters strictly before 1-based position i
NewlinesBefore(s, i) == Cardinality({k \in 1..(i - 1) : s[k] = NL})

\* the current file has been read and scanned
Scanned == pc \in {"loop", "report", "done"} /\ idx > 0

\* the records of the current file: the last Len(matches) entries of results
OwnRecord(k) == results[Len(results) - Len(matches) + k]

----------------------------------------------------------------------------
(* Properties *)

\* C1: a file whose text holds exactly one initial={{X}} (X without }},
\* possibly empty or with a single }) gets exactly one report line that
\* references it, numbered (newlines before the match start) + 1.
C1_OneOccurrenceOneLine ==
    (pc = "done" /\ idx > 0 /\ Cardinality(Occurrences(content)) = 1) =>
        LET ls   == Lines(stdout)
            refs == {k \in 1..Len(ls) : References(ls[k], tsx_file)}
            i    == CHOOSE o \in Occurrences(content) : TRUE
        IN  /\ Cardinality(refs) = 1
            /\ \A k \in refs : /\ WellFormedRecord(ls[k])
                               /\ LineField(ls[k]) = NewlinesBefore(content, i) + 1

\* C2: a non-empty report starts with the line
\* Found <N> remaining initial={{}} patterns:  (two braces each side,
\* N the number of records), followed by a blank line.
C2_HeaderText ==
    (pc = "done" /\ results # <<>>) =>
        /\ Len(Lines(stdout)) >= 2
        /\ Lines(stdout)[1] = ExpectedHeader(Len(results))
        /\ Lines(stdout)[2] = <<>>

\* C3: when there is no *.tsx file, or no file contains the pattern, all
\* of standard output is the one line No remaining initial={{}} patterns found!
C3_NoneFound ==
    /\ (pc = "done" /\ (listing = <<>> \/ results = <<>>)) =>
           /\ stdout = ExpectedNone \o <<NL>>
           /\ Lines(stdout) = <<ExpectedNone>>
    /\ (Scanned /\ Occurrences(content) = {}) =>
           \A k \in 1..Len(results) : ~References(results[k], tsx_file)

C3_Witness ==
    /\ pc = "done"
    /\ Len(listing) = 2
    /\ Len(content) > 0
    /\ results = <<>>
    /\ Lines(stdout) = <<ExpectedNone>>

\* C4: in a non-empty report every record is exactly one output line
\* <filename>:<line>: <snippet>, so N records give N lines after the header
\* and the blank line, also when a match spans several lines.
C4_OneLinePerRecord ==
    (pc = "done" /\ results # <<>>) =>
        /\ Len(Lines(stdout)) = 2 + Len(results)
        /\ \A k \in 3..Len(Lines(stdout)) : WellFormedRecord(Lines(stdout)[k])

\* C5: with the directory missing or unreadable the run ends abnormally
\* and prints no report; it never prints the none-found message then.
C5_DirectoryError ==
    (dir \in {"missing", "unreadable"}) =>
        /\ pc # "done"
        /\ stdout = <<>>

\* C6: when opening or reading a file fails the scan stops at that file
\* and nothing is printed -- no header, no record of an earlier file, no
\* none-found message -- wherever the file is in the enumeration.
C6_ReadFailureStopsRun ==
    (exc = "OSError") =>
        /\ pc = "crashed"
        /\ stdout = <<>>
        /\ idx > 0 /\ tsx_file = listing[idx]

C6_Witness ==
    /\ exc = "OSError"
    /\ idx = 2
    /\ results # <<>>
    /\ stdout = <<>>

\* C7: every record's line number is at least 1 and is the number of
\* newlines strictly before the match start plus one: for a match over
\* several lines, the line holding initial={{ and not the line of the }}.
C7_LineNumber ==
    /\ \A k \in 1..Len(results) : LineField(results[k]) >= 1
    /\ Scanned =>
           /\ Len(matches) <= Len(results)
           /\ \A k \in 1..Len(matches) :
                  /\ LitAt(content, matches[k].start + 1, OpenLit)
                  /\ LineField(OwnRecord(k)) =
                         NewlinesBefore(content, matches[k].start + 1) + 1

C7_Witness ==
    /\ Scanned
    /\ \E k \in 1..Len(matches) :
           /\ NewlinesBefore(content, matches[k].end + 1)
                  > NewlinesBefore(content, matches[k].start + 1)
           /\ LineField(OwnRecord(k)) = NewlinesBefore(content, matches[k].start + 1) + 1
    /\ \E k \in 1..Len(results) : LineField(results[k]) >= 2

\* C8: a record's snippet is the first min(80, length) characters of the
\* matched text: longer matches are cut to exactly 80 characters with no
\* marker, shorter ones are reported whole.
C8_SnippetPrefix ==
    Scanned =>
        /\ Len(matches) <= Len(results)
        /\ \A k \in 1..Len(matches) :
               LET snip == SnippetField(OwnRecord(k))
                   mlen == matches[k].end - matches[k].start
               IN  /\ Len(snip) = Min(80, mlen)
                   /\ \A p \in 1..Len(snip) : snip[p] = content[matches[k].start + p]

C8_Witness ==
    /\ Scanned
    /\ \E k \in 1..Len(matches) :
           /\ matches[k].end - matches[k].start > 80
           /\ Len(SnippetField(OwnRecord(k))) = 80
    /\ \E k \in 1..Len(results) : Len(SnippetField(results[k])) < 80

\* position in the listing of the file a record references
FilePos(r) == CHOOSE n \in 1..Len(listing) : listing[n] = NameField(r)

\* characters the first k records take when printed, one newline each
RECURSIVE RecordsLen(_)
RecordsLen(k) == IF k = 0 THEN 0 ELSE RecordsLen(k - 1) + Len(results[k]) + 1

\* the records start after the header line and the blank line
BodyStart == FirstAt(stdout, FirstAt(stdout, 1, NL) + 1, NL) + 1

RecordAt(k) == BodyStart + RecordsLen(k - 1)

\* C9: records are printed in the order collected: those of a file
\* enumerated earlier come before those of a file enumerated later, and
\* within a file they ascend strictly by match start, without overlap.
C9_Order ==
    /\ \A i, j \in 1..Len(results) :
           i < j => /\ NameField(results[i]) \in {listing[n] : n \in 1..idx}
                    /\ FilePos(results[i]) <= FilePos(results[j])
    /\ Scanned =>
           /\ Len(matches) <= Len(results)
           /\ \A k \in 1..Len(matches) :
                  /\ NameField(OwnRecord(k)) = tsx_file
                  /\ IsPrefix(SnippetField(OwnRecord(k)),
                              SubSeq(content, matches[k].start + 1, Len(content)))
           /\ \A k \in 1..(Len(matches) - 1) :
                  /\ matches[k].start < matches[k + 1].start
                  /\ matches[k].end <= matches[k + 1].start
           /\ \A k \in 1..(Len(results) - Len(matches)) :
                  NameField(results[k]) # tsx_file
    /\ (pc = "done" /\ results # <<>>) =>
           /\ \A k \in 1..Len(results) :
                  SubSeq(stdout, RecordAt(k), RecordAt(k) + Len(results[k])) =
                      results[k] \o <<NL>>
           /\ Len(stdout) = RecordAt(Len(results)) + Len(results[Len(results)])

C9_Witness ==
    /\ pc = "done"
    /\ Len(listing) = 2
    /\ Len(matches) = 2
    /\ Len(results) = 3
    /\ NameField(results[1]) = listing[1]
    /\ NameField(results[3]) = listing[2]

\* C10: every match starts at an initial={{ and ends at the nearest }}
\* after it, and every initial={{ that is followed by a }} and is not
\* inside an earlier match yields a match -- empty bodies and bodies with
\* a single } included.
C10_MatchSpans ==
    Scanned =>
        /\ \A k \in 1..Len(matches) :
               /\ LitAt(content, matches[k].start + 1, OpenLit)
               /\ matches[k].end =
                      NearestClose(content, matches[k].start + 1 + Len(OpenLit)) + 1
        /\ \A i \in Occurrences(content) :
               (~\E k \in 1..Len(matches) : matches[k].start + 1 < i /\ i <= matches[k].end)
                   => \E k \in 1..Len(matches) : matches[k].start + 1 = i

====
